---- MODULE Spec2Model ----
(***************************************************************************)
(* Model of scripts/setup_game_module.py: setup_game_module copies the     *)
(* template module, rewrites its build file, renames its package directory,*)
(* rewrites its Kotlin files and emits GameConfig.kt, removing the module  *)
(* again when a step raises.                                                *)
(*                                                                         *)
(* Text is a sequence of one-character strings, so that str.replace and    *)
(* str.title are computed character by character.  A path is a sequence of *)
(* path components below base_path, each component a text.                 *)
(***************************************************************************)
EXTENDS Naturals, Sequences, FiniteSets

VARIABLES
    fs,         \* the filesystem below base_path: path -> [dir, data]
    pc,         \* position inside setup_game_module
    game_id,    \* argument game_id
    game_name,  \* argument game_name
    category,   \* argument category
    result,     \* "none", "True", "False" (returned) or "raised" (propagated)
    pending,    \* files of dst_path.rglob("*.kt") not yet visited
    fsAtCall,   \* the filesystem when the current call was entered
    fault,      \* the I/O operation of this call that was made to fail
    prior,      \* ids for which an earlier call returned True
    text,       \* input text of the pure-function specifications
    out         \* output text of the pure-function specifications

vars == <<fs, pc, game_id, game_name, category, result, pending,
          fsAtCall, fault, prior, text, out>>

----------------------------------------------------------------------------
(* Bounds *)

\* length of the ids the name derivation is applied to
MaxIdLen == 4
\* fragments a build file's content is assembled from
MaxFrags == 3

----------------------------------------------------------------------------
(* Text *)

LOWER == <<"a","b","c","d","e","f","g","h","i","j","k","l","m","n","o","p","q","r","s","t","u","v","w","x","y","z">>
UPPER == <<"A","B","C","D","E","F","G","H","I","J","K","L","M","N","O","P","Q","R","S","T","U","V","W","X","Y","Z">>

IsLower(c) == \E i \in 1..Len(LOWER) : LOWER[i] = c
IsUpper(c) == \E i \in 1..Len(UPPER) : UPPER[i] = c
ToUpper(c) == IF IsLower(c) THEN UPPER[CHOOSE i \in 1..Len(LOWER) : LOWER[i] = c] ELSE c
ToLower(c) == IF IsUpper(c) THEN LOWER[CHOOSE i \in 1..Len(UPPER) : UPPER[i] = c] ELSE c

\* s[i..] starts with old
MatchAt(s, old, i) ==
    /\ i + Len(old) - 1 <= Len(s)
    /\ \A k \in 1..Len(old) : s[i + k - 1] = old[k]

Contains(s, old) == \E i \in 1..Len(s) : MatchAt(s, old, i)

EndsWith(s, suffix) ==
    /\ Len(suffix) <= Len(s)
    /\ MatchAt(s, suffix, Len(s) - Len(suffix) + 1)

\* str.replace(old, new) for a non-empty old: the non-overlapping occurrences
\* of old, found scanning from the left, are each replaced by new
RECURSIVE ReplaceFrom(_, _, _, _)
ReplaceFrom(s, old, new, i) ==
    IF \A j \in i..Len(s) : ~MatchAt(s, old, j) THEN SubSeq(s, i, Len(s))
    ELSE LET j == CHOOSE j \in i..Len(s) :
                    MatchAt(s, old, j) /\ \A k \in i..(j - 1) : ~MatchAt(s, old, k)
         IN SubSeq(s, i, j - 1) \o new \o ReplaceFrom(s, old, new, j + Len(old))

Replace(s, old, new) == ReplaceFrom(s, old, new, 1)

\* str.title(): a cased character is upper-cased when the character before it
\* is uncased (or it is the first) and lower-cased when it follows a cased one
RECURSIVE TitleFrom(_, _, _)
TitleFrom(s, i, prevCased) ==
    IF i > Len(s) THEN <<>>
    ELSE IF IsLower(s[i]) \/ IsUpper(s[i])
         THEN <<IF prevCased THEN ToLower(s[i]) ELSE ToUpper(s[i])>>
              \o TitleFrom(s, i + 1, TRUE)
         ELSE <<s[i]>> \o TitleFrom(s, i + 1, FALSE)

Title(s) == TitleFrom(s, 1, FALSE)

\* game_id.replace('-', '_').title().replace('_', '') without the first replace
TypeName_nohyphen(id) == Replace(Title(id), <<"_">>, <<>>)

\* game_id.replace('-', '_').title().replace('_', '')
TypeName(id) == Replace(Title(Replace(id, <<"-">>, <<"_">>)), <<"_">>, <<>>)

----------------------------------------------------------------------------
(* Literals of the script *)

QUALIFIED_PLACEHOLDER == <<"c","o","m",".","r","o","s","h","n","i",".","g","a","m","e","s",".","g","a","m","e",".","G","A","M","E","_","I","D">>
QUALIFIED_PREFIX == <<"c","o","m",".","r","o","s","h","n","i",".","g","a","m","e","s",".","g","a","m","e",".">>
BARE_PLACEHOLDER == <<"G","A","M","E","_","I","D">>
PACKAGE_DECL == <<"p","a","c","k","a","g","e"," ","c","o","m",".","r","o","s","h","n","i",".","g","a","m","e","s",".","g","a","m","e",".","t","e","m","p","l","a","t","e">>
PACKAGE_PREFIX == <<"p","a","c","k","a","g","e"," ","c","o","m",".","r","o","s","h","n","i",".","g","a","m","e","s",".","g","a","m","e",".">>
TYPE_TOKEN == <<"T","e","m","p","l","a","t","e">>
KT_SUFFIX == <<".","k","t">>

\* the two replaces applied to build.gradle.kts, without the second
BuildRewrite_qualifiedOnly(content, id) ==
    Replace(content, QUALIFIED_PLACEHOLDER, QUALIFIED_PREFIX \o id)

\* the two replaces applied to the content of build.gradle.kts
BuildRewrite(content, id) ==
    Replace(Replace(content, QUALIFIED_PLACEHOLDER, QUALIFIED_PREFIX \o id),
            BARE_PLACEHOLDER, id)

\* the two replaces applied to the content of each Kotlin file
KotlinRewrite(content, id) ==
    Replace(Replace(content, PACKAGE_DECL, PACKAGE_PREFIX \o id),
            TYPE_TOKEN, TypeName(id))

\* the f-string config_content
ConfigContent(id, name, cat) ==
    <<"p","a","c","k","a","g","e"," ","c","o","m",".","r","o","s","h","n","i",".","g","a","m","e","s",".","g","a","m","e",".">> \o id
    \o <<"\n","\n","/","/"," ","G","a","m","e"," ","c","o","n","f","i","g","u","r","a","t","i","o","n"," ","f","o","r"," ">> \o name
    \o <<"\n","o","b","j","e","c","t"," ","G","a","m","e","C","o","n","f","i","g"," ","{","\n"," "," "," "," ","c","o","n","s","t"," ","v","a","l"," ","G","A","M","E","_","I","D"," ","="," ","\"">> \o id
    \o <<"\"","\n"," "," "," "," ","c","o","n","s","t"," ","v","a","l"," ","G","A","M","E","_","N","A","M","E"," ","="," ","\"">> \o name
    \o <<"\"","\n"," "," "," "," ","c","o","n","s","t"," ","v","a","l"," ","C","A","T","E","G","O","R","Y"," ","="," ","\"">> \o cat
    \o <<"\"","\n"," "," "," "," ","c","o","n","s","t"," ","v","a","l"," ","V","E","R","S","I","O","N"," ","="," ","\"","1",".","0",".","0","\"","\n"," "," "," "," ","c","o","n","s","t"," ","v","a","l"," ","M","I","N","_","S","D","K"," ","="," ","2","4","\n"," "," "," "," ","c","o","n","s","t"," ","v","a","l"," ","T","A","R","G","E","T","_","S","D","K"," ","="," ","3","4","\n","}","\n">>

----------------------------------------------------------------------------
(* Paths and the filesystem *)

Dir == [dir |-> TRUE, data |-> <<>>]
File(content) == [dir |-> FALSE, data |-> content]

Exists(f, p) == p \in DOMAIN f
IsDir(f, p) == p \in DOMAIN f /\ f[p].dir
IsFile(f, p) == p \in DOMAIN f /\ ~f[p].dir

IsPrefix(p, q) == Len(p) <= Len(q) /\ SubSeq(q, 1, Len(p)) = p
Parent(p) == SubSeq(p, 1, Len(p) - 1)
Under(f, p) == {q \in DOMAIN f : IsPrefix(p, q)}
Rebase(q, from, to) == to \o SubSeq(q, Len(from) + 1, Len(q))

\* a set of paths that holds, with each path below root, its parent
ParentClosed(S, root) == \A q \in S : q = root \/ Parent(q) \in S

\* f without the paths in S
Without(f, S) == [q \in DOMAIN f \ S |-> f[q]]

\* f with the paths in S added or overwritten, each as g[q]
Overlay(f, g) == [q \in DOMAIN f \cup DOMAIN g |-> IF q \in DOMAIN g THEN g[q] ELSE f[q]]

\* open(p, 'w'); write(content)
WriteFile(f, p, content) == Overlay(f, [q \in {p} |-> File(content)])

\* Path(base_path) / "template"
template_path == <<<<"t","e","m","p","l","a","t","e">>>>

\* Path(base_path) / game_id
game_path(id) == <<id>>

PACKAGE_ROOT == <<<<"s","r","c">>, <<"m","a","i","n">>, <<"k","o","t","l","i","n">>, <<"c","o","m">>, <<"r","o","s","h","n","i">>, <<"g","a","m","e","s">>, <<"g","a","m","e">>>>

build_gradle_path(id) == game_path(id) \o <<<<"b","u","i","l","d",".","g","r","a","d","l","e",".","k","t","s">>>>

\* the package directory looked for in the template instead of in the copy
src_path_inTemplate(id) == template_path \o PACKAGE_ROOT \o <<<<"t","e","m","p","l","a","t","e">>>>

src_path(id) == game_path(id) \o PACKAGE_ROOT \o <<<<"t","e","m","p","l","a","t","e">>>>
dst_path(id) == game_path(id) \o PACKAGE_ROOT \o <<id>>
config_file(id) == dst_path(id) \o <<<<"G","a","m","e","C","o","n","f","i","g",".","k","t">>>>

\* the guard tests is_file() instead of exists()
AlreadyExists_isFile(f, id) == IsFile(f, game_path(id))

\* game_path.exists()
AlreadyExists(f, id) == Exists(f, game_path(id))

\* the tree below src, copied to dst
CopyOf(f, src, dst) ==
    [q \in {Rebase(p, src, dst) : p \in Under(f, src)} |-> f[Rebase(q, dst, src)]]

\* shutil.copytree(src, dst) when it completes
copytree(f, src, dst) == Overlay(f, CopyOf(f, src, dst))

\* copytree that creates dst before it scans src
CopyFailOutcomes_mkdirFirst(f, src, dst) ==
    IF Exists(f, dst) THEN {f}
    ELSE IF ~IsDir(f, src) THEN {Overlay(f, [q \in {dst} |-> Dir])}
    ELSE {Overlay(f, [q \in S |-> CopyOf(f, src, dst)[q]]) :
            S \in {T \in SUBSET DOMAIN CopyOf(f, src, dst) : ParentClosed(T, dst)}}

\* shutil.copytree(src, dst) when it raises: scanning src or creating dst
\* failed (nothing was created), or any part of the tree was copied
CopyFailOutcomes(f, src, dst) ==
    IF ~IsDir(f, src) \/ Exists(f, dst) THEN {f}
    ELSE {Overlay(f, [q \in S |-> CopyOf(f, src, dst)[q]]) :
            S \in {T \in SUBSET DOMAIN CopyOf(f, src, dst) : ParentClosed(T, dst)}}

\* os.rename(src, dst) of a directory when it completes
rename(f, src, dst) ==
    Overlay(Without(f, Under(f, src) \cup Under(f, dst)), CopyOf(f, src, dst))

\* os.rename(src, dst) raises when dst is a file or a non-empty directory
RenameRefused(f, src, dst) == IsFile(f, dst) \/ Under(f, dst) \ {dst} # {}

\* rmtree that empties the directory and keeps it
rmtree_keepRoot(f, p) == Without(f, Under(f, p) \ {p})

\* shutil.rmtree(p) when it completes
rmtree(f, p) == Without(f, Under(f, p))

\* shutil.rmtree(p) when it raises: p and any part of its tree remain
RmtreeFailOutcomes(f, p) ==
    {Without(f, Under(f, p) \ S) :
        S \in {T \in SUBSET Under(f, p) : p \in T /\ ParentClosed(T, p)}}

\* dst_path.rglob("*.kt"): every path below p whose name ends in .kt
rglob_kt(f, p) == {q \in Under(f, p) : q # p /\ EndsWith(q[Len(q)], KT_SUFFIX)}

----------------------------------------------------------------------------
(* Inputs *)

\* --id: a plain id, an id with a letter after a digit, and the id that
\* names the template's own directory
GameIds == {<<"p","-","1">>, <<"a","2","b">>, <<"t","e","m","p","l","a","t","e">>}
\* --name and --category: the second name holds the template's type token
Identities == {<<<<"F","u","n">>, <<"p","u","z","z","l","e">>>>, <<<<"T","e","m","p","l","a","t","e">>, <<"w","o","r","d">>>>}

BUILD_GRADLE == <<"n","a","m","e","s","p","a","c","e"," ","="," ","\"","c","o","m",".","r","o","s","h","n","i",".","g","a","m","e","s",".","g","a","m","e",".","G","A","M","E","_","I","D","\"","\n","i","d"," ","="," ","\"","G","A","M","E","_","I","D","\"","\n">>
MAIN_KT == <<"p","a","c","k","a","g","e"," ","c","o","m",".","r","o","s","h","n","i",".","g","a","m","e","s",".","g","a","m","e",".","t","e","m","p","l","a","t","e","\n","c","l","a","s","s"," ","T","e","m","p","l","a","t","e","G","a","m","e","\n">>
MAIN_KT_IMPORTS == <<"p","a","c","k","a","g","e"," ","c","o","m",".","r","o","s","h","n","i",".","g","a","m","e","s",".","g","a","m","e",".","t","e","m","p","l","a","t","e","\n","i","m","p","o","r","t"," ","c","o","m",".","r","o","s","h","n","i",".","g","a","m","e","s",".","g","a","m","e",".","t","e","m","p","l","a","t","e",".","u","i",".","T","e","m","p","l","a","t","e","S","c","r","e","e","n","\n">>
SCREEN_KT == <<"p","a","c","k","a","g","e"," ","c","o","m",".","r","o","s","h","n","i",".","g","a","m","e","s",".","g","a","m","e",".","t","e","m","p","l","a","t","e",".","u","i","\n","c","l","a","s","s"," ","T","e","m","p","l","a","t","e","S","c","r","e","e","n","\n">>
README == <<"T","e","m","p","l","a","t","e"," ","m","o","d","u","l","e","\n">>

\* the directories from p up to its ancestor root, root included
Chain(root, p) == {SubSeq(p, 1, n) : n \in Len(root)..Len(p)}

DirsOf(S) == [q \in S |-> Dir]

TemplateRoot == DirsOf({template_path})
TemplateBuild == [q \in {template_path \o <<<<"b","u","i","l","d",".","g","r","a","d","l","e",".","k","t","s">>>>} |-> File(BUILD_GRADLE)]
TemplatePkgDir == template_path \o PACKAGE_ROOT \o <<<<"t","e","m","p","l","a","t","e">>>>
TemplatePkg(main) ==
    Overlay(DirsOf(Chain(template_path, TemplatePkgDir)),
            [q \in {TemplatePkgDir \o <<<<"M","a","i","n",".","k","t">>>>} |-> File(main)])
TemplateNested ==
    Overlay(DirsOf({TemplatePkgDir \o <<<<"u","i">>>>}),
            [q \in {TemplatePkgDir \o <<<<"u","i">>, <<"S","c","r","e","e","n",".","k","t">>>>,
                    TemplatePkgDir \o <<<<"R","E","A","D","M","E",".","m","d">>>>} |->
                IF q[Len(q)] = <<"R","E","A","D","M","E",".","m","d">> THEN File(README) ELSE File(SCREEN_KT)])

\* the contents of base_path before the first call: no template, a file
\* named template, or a template directory with or without a build file and
\* with or without a package directory
InitialTrees ==
    {<< >>, [q \in {template_path} |-> File(<<"x">>)]}
    \cup {Overlay(Overlay(TemplateRoot, b), k) :
            b \in {<< >>, TemplateBuild},
            k \in {<< >>, TemplatePkg(MAIN_KT), TemplatePkg(MAIN_KT_IMPORTS),
                   Overlay(TemplatePkg(MAIN_KT), TemplateNested)}}

----------------------------------------------------------------------------
(* setup_game_module *)

Init ==
    /\ fs \in InitialTrees
    /\ pc = "idle"
    /\ game_id = <<>>
    /\ game_name = <<>>
    /\ category = <<>>
    /\ result = "none"
    /\ pending = {}
    /\ fsAtCall = fs
    /\ fault = "none"
    /\ prior = {}
    /\ text = <<>>
    /\ out = <<>>

args == <<game_id, game_name, category>>
pure == <<text, out>>

\* entry, and the guard on game_path.exists()
Call ==
    /\ pc \in {"idle", "done"}
    /\ \E id \in GameIds, nc \in Identities :
        /\ game_id' = id
        /\ game_name' = nc[1]
        /\ category' = nc[2]
        /\ IF AlreadyExists(fs, id)
           THEN pc' = "done" /\ result' = "False"
           ELSE pc' = "copy" /\ result' = "none"
    /\ fsAtCall' = fs
    /\ fault' = "none"
    /\ prior' = IF result = "True" THEN prior \cup {game_id} ELSE prior
    /\ pending' = {}
    /\ UNCHANGED <<fs, pure>>

\* a step of the try block raised: control goes to the except clause
Raise(f, cause) ==
    /\ fs' = f
    /\ pc' = "except"
    /\ fault' = cause
    /\ UNCHANGED <<args, result, pending, fsAtCall, prior, pure>>

\* a step of the try block completed
Step(f, next) ==
    /\ fs' = f
    /\ pc' = next
    /\ UNCHANGED <<args, result, fsAtCall, fault, prior, pure>>

CopyOk ==
    /\ pc = "copy"
    /\ IsDir(fs, template_path)
    /\ ~Exists(fs, game_path(game_id))
    /\ Step(copytree(fs, template_path, game_path(game_id)), "build")
    /\ UNCHANGED pending

\* copytree raises: by itself when there is no template directory, by an
\* I/O failure otherwise
CopyFail ==
    /\ pc = "copy"
    /\ \E f \in CopyFailOutcomes(fs, template_path, game_path(game_id)) :
        Raise(f, IF IsDir(fs, template_path) /\ ~Exists(fs, game_path(game_id))
                 THEN "copy" ELSE "none")

BuildSkip ==
    /\ pc = "build"
    /\ ~Exists(fs, build_gradle_path(game_id))
    /\ Step(fs, "rename")
    /\ UNCHANGED pending

BuildOk ==
    /\ pc = "build"
    /\ IsFile(fs, build_gradle_path(game_id))
    /\ Step(WriteFile(fs, build_gradle_path(game_id),
                      BuildRewrite(fs[build_gradle_path(game_id)].data, game_id)),
            "rename")
    /\ UNCHANGED pending

BuildReadFail ==
    /\ pc = "build"
    /\ Exists(fs, build_gradle_path(game_id))
    /\ Raise(fs, IF IsFile(fs, build_gradle_path(game_id)) THEN "build_read" ELSE "none")

\* open(.., 'w') raised (the file is as it was) or write raised (it is empty)
BuildWriteFail ==
    /\ pc = "build"
    /\ IsFile(fs, build_gradle_path(game_id))
    /\ \E f \in {fs, WriteFile(fs, build_gradle_path(game_id), <<>>)} :
        Raise(f, "build_write")

\* leaving the rename step starts the loop over dst_path.rglob("*.kt")
RenameSkip ==
    /\ pc = "rename"
    /\ ~Exists(fs, src_path(game_id))
    /\ Step(fs, "kotlin")
    /\ pending' = rglob_kt(fs, dst_path(game_id))

RenameOk ==
    /\ pc = "rename"
    /\ Exists(fs, src_path(game_id))
    /\ ~RenameRefused(fs, src_path(game_id), dst_path(game_id))
    /\ Step(rename(fs, src_path(game_id), dst_path(game_id)), "kotlin")
    /\ pending' = rglob_kt(fs', dst_path(game_id))

RenameFail ==
    /\ pc = "rename"
    /\ Exists(fs, src_path(game_id))
    /\ Raise(fs, IF RenameRefused(fs, src_path(game_id), dst_path(game_id))
                 THEN "none" ELSE "rename")

KotlinOk ==
    /\ pc = "kotlin"
    /\ \E k \in pending :
        /\ IsFile(fs, k)
        /\ Step(WriteFile(fs, k, KotlinRewrite(fs[k].data, game_id)), "kotlin")
        /\ pending' = pending \ {k}

KotlinReadFail ==
    /\ pc = "kotlin"
    /\ \E k \in pending : Raise(fs, IF IsFile(fs, k) THEN "kotlin_read" ELSE "none")

KotlinWriteFail ==
    /\ pc = "kotlin"
    /\ \E k \in pending :
        /\ IsFile(fs, k)
        /\ \E f \in {fs, WriteFile(fs, k, <<>>)} : Raise(f, "kotlin_write")

\* the loop over the Kotlin files is exhausted
KotlinDone ==
    /\ pc = "kotlin"
    /\ pending = {}
    /\ Step(fs, "config")
    /\ UNCHANGED pending

\* GameConfig.kt written before the loop over the Kotlin files, which then
\* rewrites it with the others
ConfigOk_beforeRewrite ==
    /\ pc = "config"
    /\ IsDir(fs, dst_path(game_id))
    /\ ~IsDir(fs, config_file(game_id))
    /\ fs' = WriteFile(fs, config_file(game_id),
                       KotlinRewrite(ConfigContent(game_id, game_name, category), game_id))
    /\ pc' = "done"
    /\ result' = "True"
    /\ UNCHANGED <<args, pending, fsAtCall, fault, prior, pure>>

\* GameConfig.kt is written and the function returns True
ConfigOk ==
    /\ pc = "config"
    /\ IsDir(fs, dst_path(game_id))
    /\ ~IsDir(fs, config_file(game_id))
    /\ fs' = WriteFile(fs, config_file(game_id),
                       ConfigContent(game_id, game_name, category))
    /\ pc' = "done"
    /\ result' = "True"
    /\ UNCHANGED <<args, pending, fsAtCall, fault, prior, pure>>

\* open(config_file, 'w') raises by itself when dst_path is no directory;
\* otherwise open or write is made to fail
ConfigFail ==
    /\ pc = "config"
    /\ IF IsDir(fs, dst_path(game_id))
       THEN \E f \in {fs, WriteFile(fs, config_file(game_id), <<>>)} :
                Raise(f, "config_write")
       ELSE Raise(fs, "none")

\* except clause, game_path does not exist: return False
ExceptNothing ==
    /\ pc = "except"
    /\ ~Exists(fs, game_path(game_id))
    /\ pc' = "done"
    /\ result' = "False"
    /\ UNCHANGED <<fs, args, pending, fsAtCall, fault, prior, pure>>

\* except clause, game_path exists and rmtree completes: return False
ExceptCleanup ==
    /\ pc = "except"
    /\ Exists(fs, game_path(game_id))
    /\ fs' = rmtree(fs, game_path(game_id))
    /\ pc' = "done"
    /\ result' = "False"
    /\ UNCHANGED <<args, pending, fsAtCall, fault, prior, pure>>

\* except clause, rmtree raises: the exception leaves setup_game_module
ExceptCleanupFail ==
    /\ pc = "except"
    /\ Exists(fs, game_path(game_id))
    /\ fs' \in RmtreeFailOutcomes(fs, game_path(game_id))
    /\ pc' = "raised"
    /\ result' = "raised"
    /\ UNCHANGED <<args, pending, fsAtCall, fault, prior, pure>>

Next ==
    \/ Call
    \/ CopyOk
    \/ CopyFail
    \/ BuildSkip
    \/ BuildOk
    \/ BuildReadFail
    \/ BuildWriteFail
    \/ RenameSkip
    \/ RenameOk
    \/ RenameFail
    \/ KotlinOk
    \/ KotlinReadFail
    \/ KotlinWriteFail
    \/ KotlinDone
    \/ ConfigOk
    \/ ConfigFail
    \/ ExceptNothing
    \/ ExceptCleanup
    \/ ExceptCleanupFail

Spec == Init /\ [][Next]_vars

----------------------------------------------------------------------------
(* The name derivation applied to every id up to MaxIdLen characters *)

\* a letter, a letter, a digit and the two separators
IdChars == {"a", "b", "2", "-", "_"}
Ids(n) == UNION {[1..k -> IdChars] : k \in 1..n}

Idle ==
    /\ fs = << >>
    /\ game_name = <<>>
    /\ category = <<>>
    /\ result = "none"
    /\ pending = {}
    /\ fsAtCall = << >>
    /\ fault = "none"
    /\ prior = {}

InitName ==
    /\ Idle
    /\ game_id \in Ids(MaxIdLen)
    /\ pc = "name"
    /\ text = <<>>
    /\ out = <<>>

DeriveName ==
    /\ pc = "name"
    /\ out' = TypeName(game_id)
    /\ pc' = "named"
    /\ UNCHANGED <<fs, args, result, pending, fsAtCall, fault, prior, text>>

SpecName == InitName /\ [][DeriveName]_vars

----------------------------------------------------------------------------
(* The build-file rewrite applied to texts of up to MaxFrags fragments *)

RECURSIVE Concat(_)
Concat(ss) == IF ss = <<>> THEN <<>> ELSE Head(ss) \o Concat(Tail(ss))

\* the prefix of the qualified placeholder, the bare placeholder, its three
\* parts and a character of neither
BuildFrags == {QUALIFIED_PREFIX, BARE_PLACEHOLDER, <<"G","A","M","E">>, <<"_">>, <<"I","D">>, <<" ">>}
BuildTexts == {Concat(ss) : ss \in UNION {[1..k -> BuildFrags] : k \in 0..MaxFrags}}
\* ids with a hyphen, with an underscore inside, in front and behind, and
\* the two ids that are one separator
BuildIds == {<<"p","-","1">>, <<"a","_","b">>, <<"_","x">>, <<"i","d","_">>, <<"-">>, <<"_">>}

InitBuild ==
    /\ Idle
    /\ game_id \in BuildIds
    /\ text \in BuildTexts
    /\ pc = "rewrite"
    /\ out = <<>>

RewriteBuild ==
    /\ pc = "rewrite"
    /\ out' = BuildRewrite(text, game_id)
    /\ pc' = "rewritten"
    /\ UNCHANGED <<fs, args, result, pending, fsAtCall, fault, prior, text>>

SpecBuild == InitBuild /\ [][RewriteBuild]_vars

----------------------------------------------------------------------------
(* Properties *)

Target == game_path(game_id)
Returned == pc = "done"
\* the I/O operations of the try block that can be made to fail
FaultPoints == {"copy", "build_read", "build_write", "rename", "kotlin_read",
                "kotlin_write", "config_write"}
TemplateTree(f) == [q \in Under(f, template_path) |-> f[q]]
NAMESPACE_TOKEN == <<"c","o","m",".","r","o","s","h","n","i",".","g","a","m","e","s",".","g","a","m","e",".","t","e","m","p","l","a","t","e">>

\* C1 (atomicity): when an I/O failure was injected at any step of the try
\* block and setup_game_module has returned False, game_path does not exist.
C1_Atomicity ==
    (Returned /\ result = "False" /\ fault \in FaultPoints) => ~Exists(fs, Target)

\* the config write, the last step, failed with the module otherwise built,
\* and the call returned False
C1_Witness ==
    /\ Returned
    /\ result = "False"
    /\ fault = "config_write"
    /\ ~Exists(fs, Target)
    /\ IsDir(fs, template_path)

\* C2 (idempotent failure): a call for an id that an earlier call created
\* returns False at once and leaves the whole filesystem as it found it.
C2_IdempotentFailure ==
    game_id \in prior => (Returned /\ result = "False" /\ fs = fsAtCall)

\* a second call for a created id has returned False with the module in place
C2_Witness ==
    /\ game_id \in prior
    /\ Returned
    /\ result = "False"
    /\ IsFile(fs, config_file(game_id))

\* the module is complete: build file rewritten, package directory renamed,
\* GameConfig.kt emitted
FullyInstantiated(f, id) ==
    /\ IsDir(f, game_path(id))
    /\ IsFile(f, build_gradle_path(id)) => ~Contains(f[build_gradle_path(id)].data, BARE_PLACEHOLDER)
    /\ ~Exists(f, src_path(id))
    /\ IsFile(f, config_file(id))

\* C3 (two-state guarantee): no exception leaves setup_game_module, and when
\* a call that passed the guard has returned, the target directory is absent
\* or fully instantiated.
C3_TwoStateGuarantee ==
    /\ result # "raised"
    /\ (Returned /\ ~Exists(fsAtCall, Target)) =>
            (~Exists(fs, Target) \/ FullyInstantiated(fs, game_id))

\* C4 (optional steps): with a template directory that lacks the build file
\* or the package directory, no target beforehand and no I/O failure, the
\* call returns True and the target directory exists.
C4_OptionalStepsTolerated ==
    ( /\ Returned
      /\ fault = "none"
      /\ IsDir(fsAtCall, template_path)
      /\ ~Exists(fsAtCall, Target)
      /\ \/ ~Exists(fsAtCall, template_path \o <<<<"b","u","i","l","d",".","g","r","a","d","l","e",".","k","t","s">>>>)
         \/ ~Exists(fsAtCall, TemplatePkgDir) )
    => (result = "True" /\ IsDir(fs, Target))

\* C5 (non-interference): at every point of every call, returned, failed or
\* left by an exception, the tree below the template directory (its paths
\* and the bytes of its files) is what it was when the call was entered.
C5_NonInterference ==
    TemplateTree(fs) = TemplateTree(fsAtCall)

\* a step failed on a copy of a template directory, the rollback ran and the
\* call returned
C5_Witness ==
    /\ Returned
    /\ result = "False"
    /\ fault = "rename"
    /\ IsDir(fs, template_path)
    /\ Cardinality(DOMAIN TemplateTree(fs)) > 1

\* C6 (content-rewrite completeness): after a call returned True, no Kotlin
\* file below the renamed directory holds the template's namespace token or
\* its type token.  Stated for the files the rewrite visits: GameConfig.kt,
\* written after it, is left out.
C6_RewriteComplete ==
    (Returned /\ result = "True") =>
        \A k \in rglob_kt(fs, dst_path(game_id)) \ {config_file(game_id)} :
            /\ ~Contains(fs[k].data, NAMESPACE_TOKEN)
            /\ ~Contains(fs[k].data, TYPE_TOKEN)

\* C8 (template missing): when base_path/template is no directory the call
\* changes nothing at any point, raises nothing and returns False.
C8_TemplateMissing ==
    (pc # "idle" /\ ~IsDir(fsAtCall, template_path)) =>
        /\ fs = fsAtCall
        /\ result # "raised"
        /\ Returned => result = "False"

\* a call without a template, and one with a file named template, returned
C8_Witness ==
    /\ Returned
    /\ result = "False"
    /\ ~IsDir(fsAtCall, template_path)
    /\ ~Exists(fsAtCall, Target)
    /\ fs = fsAtCall

Quoted(key, value) == key \o <<" ","="," ","\"">> \o value \o <<"\"","\n">>

\* C10 (config emission): after a call returned True, GameConfig.kt is a
\* file of the renamed directory and holds the package of the id, the id,
\* the name and the category as passed in and the fixed constants, the
\* name untouched by the substitutions of the Kotlin rewrite.
C10_ConfigEmitted ==
    (Returned /\ result = "True") =>
        /\ IsDir(fs, dst_path(game_id))
        /\ IsFile(fs, config_file(game_id))
        /\ LET c == fs[config_file(game_id)].data IN
            /\ c = ConfigContent(game_id, game_name, category)
            /\ MatchAt(c, PACKAGE_PREFIX \o game_id \o <<"\n">>, 1)
            /\ Contains(c, Quoted(<<"G","A","M","E","_","I","D">>, game_id))
            /\ Contains(c, Quoted(<<"G","A","M","E","_","N","A","M","E">>, game_name))
            /\ Contains(c, Quoted(<<"C","A","T","E","G","O","R","Y">>, category))
            /\ Contains(c, Quoted(<<"V","E","R","S","I","O","N">>, <<"1",".","0",".","0">>))
            /\ Contains(c, <<"M","I","N","_","S","D","K"," ","="," ","2","4","\n">>)
            /\ Contains(c, <<"T","A","R","G","E","T","_","S","D","K"," ","="," ","3","4","\n">>)

\* a call whose display name is the template's type token returned True
C10_Witness ==
    /\ Returned
    /\ result = "True"
    /\ game_name = TYPE_TOKEN
    /\ Contains(fs[config_file(game_id)].data, TYPE_TOKEN)

----------------------------------------------------------------------------
(* Properties of the name derivation *)

IsSeparator(c) == c \in {"-", "_"}

\* split on '-' and '_', capitalise the first character of each non-empty
\* segment, change nothing else, concatenate
RECURSIVE SegmentCapsFrom(_, _)
SegmentCapsFrom(s, i) ==
    IF i > Len(s) THEN <<>>
    ELSE IF IsSeparator(s[i]) THEN SegmentCapsFrom(s, i + 1)
    ELSE <<IF i = 1 \/ IsSeparator(s[i - 1]) THEN ToUpper(s[i]) ELSE s[i]>>
         \o SegmentCapsFrom(s, i + 1)

\* as SegmentCapsFrom, and a letter that follows a digit is capitalised too
RECURSIVE LetterRunCapsFrom(_, _)
LetterRunCapsFrom(s, i) ==
    IF i > Len(s) THEN <<>>
    ELSE IF IsSeparator(s[i]) THEN LetterRunCapsFrom(s, i + 1)
    ELSE <<IF i = 1 \/ ~IsLower(s[i - 1]) THEN ToUpper(s[i]) ELSE s[i]>>
         \o LetterRunCapsFrom(s, i + 1)

\* C7 as stated (name-derivation law): the type name is the id split on its
\* separators, the first character of each non-empty segment capitalised,
\* no other character changed, the segments concatenated.
C7_SegmentCapsOnly ==
    pc = "named" => out = SegmentCapsFrom(game_id, 1)

\* C7 amended: the type name holds no separator and is the id without its
\* separators, each letter capitalised that starts a segment or follows a
\* digit, no other character changed.
C7_NameDerivation ==
    pc = "named" =>
        /\ out = LetterRunCapsFrom(game_id, 1)
        /\ \A i \in 1..Len(out) : ~IsSeparator(out[i])

\* an id of two segments, the second with a letter after a digit
C7_Witness ==
    /\ pc = "named"
    /\ game_id = <<"a", "_", "2", "b">>
    /\ out = <<"A", "2", "B">>

----------------------------------------------------------------------------
(* Properties of the build-file rewrite *)

\* one pass from the left: a qualified placeholder becomes the qualified
\* name of the id, a bare placeholder elsewhere becomes the id, every other
\* character stays
RECURSIVE OnePassFrom(_, _, _)
OnePassFrom(s, id, i) ==
    IF i > Len(s) THEN <<>>
    ELSE IF MatchAt(s, QUALIFIED_PLACEHOLDER, i)
         THEN QUALIFIED_PREFIX \o id \o OnePassFrom(s, id, i + Len(QUALIFIED_PLACEHOLDER))
    ELSE IF MatchAt(s, BARE_PLACEHOLDER, i)
         THEN id \o OnePassFrom(s, id, i + Len(BARE_PLACEHOLDER))
    ELSE <<s[i]>> \o OnePassFrom(s, id, i + 1)

\* C9 as stated (build-descriptor rewrite): for every id the two replaces
\* leave each qualified placeholder as com.roshni.games.game.<id>, each bare
\* one as <id> and everything else as it was (the second replace alters
\* nothing the first inserted), and the result holds no placeholder.
C9_EveryId ==
    pc = "rewritten" =>
        /\ out = OnePassFrom(text, game_id, 1)
        /\ ~Contains(out, BARE_PLACEHOLDER)

\* C9 amended: the same for every id of lower-case alphanumerics and
\* separators other than the id "_".
C9_BuildRewrite ==
    (pc = "rewritten" /\ game_id # <<"_">>) =>
        /\ out = OnePassFrom(text, game_id, 1)
        /\ ~Contains(out, BARE_PLACEHOLDER)

\* a text with a bare placeholder followed by a qualified one was rewritten
C9_Witness ==
    /\ pc = "rewritten"
    /\ game_id = <<"a","_","b">>
    /\ text = BARE_PLACEHOLDER \o QUALIFIED_PLACEHOLDER
    /\ out = game_id \o QUALIFIED_PREFIX \o game_id

====
